---------------------------- MODULE Spec2Model ----------------------------
(***************************************************************************)
(* Model of PKIsensee::Log (src/Log.h) and Util::FailureHandler.           *)
(*                                                                         *)
(* Text is a sequence of one-character strings; "LF" and "CR" stand for    *)
(* '\n' and '\r'.  The two stack buffers of Log::Write are kLogBufferSize  *)
(* chars wide; the model keeps the code's arithmetic and scales the        *)
(* capacity down (MaxBuf) so that every boundary case is enumerated.       *)
(***************************************************************************)
EXTENDS Integers, Sequences, FiniteSets, TLC

VARIABLES
  phase,     \* "unborn" (before the first Log::Get), "alive", "destroyed", "aborted"
  ndebug,    \* TRUE: assert() compiled out (NDEBUG); FALSE: assert() aborts
  logs_,     \* Log::logs_ : LogType -> LogFile
  status_,   \* Log::status_
  disk,      \* file system: path -> contents (Absent when never created)
  launched,  \* command lines handed to Util::StartProcess
  nWrites,   \* number of Log::Write calls made so far (bounded by MaxWrites)
  nConfigures, \* number of explicit SetLogFileNames calls made so far
  written,   \* the channels Log::Write has been called on
  nReports,  \* number of failures Util::FailureHandler has logged
  hook,      \* what the most recent Util::FailureHandler call did
  bits,      \* Util::PackBits / Util::UnpackBits: the template arguments, the
             \* calls made and the values (the argument first, then each result)
  lastOp,    \* the most recent operation
  obs        \* what the Write calls made by the most recent operation did

vars == << phase, ndebug, logs_, status_, disk, launched, nWrites, nConfigures, written, nReports,
          hook, bits, lastOp, obs >>

---------------------------------------------------------------------------
(* Bounds *)

\* scaled-down capacity of the two stack buffers of Log::Write
MaxBuf == 7
\* Log::Write calls per behaviour of Spec
MaxWrites == 1
\* explicit SetLogFileNames calls per behaviour of Spec
MaxConfigures == 1
\* longest rendered text with carriage returns in it that SpecFmt draws
MaxCRText == 4
\* longest rendered text with percent signs in it that SpecFmt draws
MaxPctText == 2
\* failures logged before a further Util::FailureHandler call of SpecHook
MaxReports == 1
\* sizeof( T ) of the widest integer type PackBits and UnpackBits are called on
MaxBytes == 2

---------------------------------------------------------------------------
(* Program constants *)

kLogBufferSize == MaxBuf
\* 1024 of 2048 in the source: half the buffer
kMaxStatusSize == kLogBufferSize \div 2

\* size_t arithmetic is modulo 2^w; w is scaled to 30 bits
SizeTModulus == 2 ^ 30
ToSizeT(x) == x % SizeTModulus

Min(a, b) == IF a < b THEN a ELSE b

\* F applied to the value of e, computed once
Let(e, F(_)) == CHOOSE y \in { F(x) : x \in { e } } : TRUE

LF == "LF"
CR == "CR"

LogType == { "Error", "Warning", "Screen", "Note", "File" }
\* iteration order LogType::First .. LogType::Last
LogTypeOrder == << "Error", "Warning", "Screen", "Note", "File" >>

NoExt == "nullptr"

\* a header is one token of text
kLogFileInfo ==
  [ Error   |-> [ ext |-> "err",  header |-> << "Error: " >>,
                  stdOutput |-> "Err",  addStatusPrefix |-> TRUE ],
    Warning |-> [ ext |-> "warn", header |-> << "Warning: " >>,
                  stdOutput |-> "Err",  addStatusPrefix |-> TRUE ],
    Screen  |-> [ ext |-> NoExt,  header |-> << >>,
                  stdOutput |-> "Out",  addStatusPrefix |-> FALSE ],
    Note    |-> [ ext |-> "log",  header |-> << >>,
                  stdOutput |-> "Out",  addStatusPrefix |-> FALSE ],
    File    |-> [ ext |-> "file", header |-> << >>,
                  stdOutput |-> "Null", addStatusPrefix |-> TRUE ] ]

kDefaultLogFileNames == "Log"

---------------------------------------------------------------------------
(* Log::Write, the formatting part (lines 165-208) *)

\* _vsnprintf_s( buffer, kLogBufferSize, kLogBufferSize - 1, ... ): text is what
\* the template and arguments render to.  At most count = kLogBufferSize - 1
\* chars are stored (plus the NUL); on truncation the CRT returns -1.
vsnprintf_s(text) ==
  IF Len(text) <= kLogBufferSize - 1
    THEN [ buffer |-> text, charsWritten |-> Len(text) ]
    ELSE [ buffer |-> SubSeq(text, 1, kLogBufferSize - 1), charsWritten |-> -1 ]

\* assert( charsWritten < kLogBufferSize ): int against size_t, so the int is
\* converted to size_t first
AssertCharsWritten(charsWritten) == ToSizeT(charsWritten) < kLogBufferSize

\* the while loop of lines 177-182.  b, be, r are offsets from buffer / replace;
\* rep is what has been stored through r so far (rep[i+1] is replace[i], and may
\* grow past the array).  The loop only ends on b = be or r = re - 1; when
\* neither can happen any more it runs away.
RECURSIVE ReplaceLoop(_, _, _, _, _)
ReplaceLoop(buffer, be, b, r, rep) ==
  IF b = be \/ r = kLogBufferSize - 1
    THEN [ r |-> r, replace |-> rep, runaway |-> FALSE ]
  ELSE IF b >= Len(buffer)
    THEN [ r |-> r, replace |-> rep, runaway |-> TRUE ]
  ELSE LET c  == buffer[b + 1]
           cr == (c = LF) /\ (b # 0) /\ (buffer[b] # CR)
       IN  ReplaceLoop(buffer, be, b + 1,
                       IF cr THEN r + 2 ELSE r + 1,
                       IF cr THEN rep \o << CR, c >> ELSE rep \o << c >>)

\* lines 173-183: replace LF with CRLF; *r = '\0' is stored at offset r
ReplaceLF(buffer, charsWritten) == ReplaceLoop(buffer, charsWritten, 0, 0, << >>)

\* a status prefix that ends in ":" alone, without the space of line 198
StatusPrefix_NoSpace(li, status) ==
  IF li.addStatusPrefix /\ status # << >>
    THEN SubSeq(status, 1, Min(Len(status), kMaxStatusSize)) \o << ":" >>
    ELSE << >>

\* a status prefix that takes the whole status, however long
StatusPrefix_Untruncated(li, status) ==
  IF li.addStatusPrefix /\ status # << >> THEN status \o << ":", " " >> ELSE << >>

\* lines 190-201: the status prefix and its size
StatusPrefix(li, status) ==
  IF li.addStatusPrefix /\ status # << >>
    THEN SubSeq(status, 1, Min(Len(status), kMaxStatusSize)) \o << ":", " " >>
    ELSE << >>

\* lines 202-203
LogTextSize(replaceChars, statusSize) == Min(replaceChars, kLogBufferSize - statusSize)

\* lines 165-208 for one call: every value the code computes on the way
Format(logType, status, text) ==
  Let(vsnprintf_s(text), LAMBDA v :
  Let(ReplaceLF(v.buffer, v.charsWritten), LAMBDA rl :
  Let(StatusPrefix(kLogFileInfo[logType], status), LAMBDA prefix :
  Let(LogTextSize(rl.r, Len(prefix)), LAMBDA logTextSize :
      [ logType       |-> logType,
        buffer        |-> v.buffer,
        charsWritten  |-> v.charsWritten,
        be            |-> v.charsWritten,            \* be = buffer + charsWritten
        assert171     |-> AssertCharsWritten(v.charsWritten),
        r             |-> rl.r,                      \* offset of the final *r = '\0'
        replace       |-> rl.replace,
        runaway       |-> rl.runaway,
        prefix        |-> prefix,
        statusSize    |-> Len(prefix),
        logTextSize   |-> logTextSize,
        \* offset of the final *b = '\0'
        totalLogChars |-> Len(prefix) + logTextSize,
        final         |-> prefix \o SubSeq(rl.replace, 1, logTextSize),
        assert208     |-> Len(prefix) + logTextSize < kLogBufferSize ]))))

---------------------------------------------------------------------------
(* The File collaborator (File.h): one handle on one path *)

Bases == { "Log", "Alt" }
Exts  == { kLogFileInfo[k].ext : k \in LogType } \ { NoExt }
Paths == Bases \X Exts
NoPath == << "", "" >>

\* path::replace_extension
ReplaceExtension(base, ext) == << base, ext >>

\* "File created " (13 chars) and asctime's 25 chars, one token each
Banner == << "File created ", "asctime" >>

\* File::SetFile
FileSetFile(lf, path) == [ lf EXCEPT !.path = path ]
\* File::Create( Write | SequentialScan ): creates or truncates, may fail.
\* life is the last lifecycle operation the handle saw; held is the set of
\* files the handle has opened and not closed.
FileCreate(lf, dsk, ok) ==
  IF ok THEN [ lf |-> [ lf EXCEPT !.open = TRUE, !.life = "opened",
                                  !.held = @ \cup { lf.path } ],
               disk |-> [ dsk EXCEPT ![lf.path] = << >> ] ]
        ELSE [ lf |-> [ lf EXCEPT !.open = FALSE, !.life = "openFailed" ], disk |-> dsk ]
\* File::Write: appends to an open file; nothing reaches a closed one
FileWrite(lf, dsk, bytes) ==
  IF lf.open THEN [ dsk EXCEPT ![lf.path] = @ \o bytes ] ELSE dsk
\* File::Close
FileClose(lf) == [ lf EXCEPT !.open = FALSE, !.life = "closed", !.held = { } ]
\* File::IsOpen
FileIsOpen(lf) == lf.open

---------------------------------------------------------------------------
(* Log *)

\* struct LogFile, default constructed (lines 262-273)
LogFile ==
  [ open |-> FALSE, path |-> NoPath, life |-> "none", held |-> { },
    stdStream |-> "NULL", hasContent |-> FALSE ]

\* fprintf( pStdStream, buffer ): buffer is the format; "%%" prints "%", any
\* other directive reads an argument that was never passed
RECURSIVE Fprintf(_)
Fprintf(fmt) ==
  IF fmt = << >> THEN [ out |-> << >>, ub |-> FALSE ]
  ELSE IF Head(fmt) # "%"
    THEN LET rest == Fprintf(Tail(fmt))
         IN  [ out |-> << Head(fmt) >> \o rest.out, ub |-> rest.ub ]
  ELSE IF Len(fmt) >= 2 /\ fmt[2] = "%"
    THEN LET rest == Fprintf(Tail(Tail(fmt)))
         IN  [ out |-> << "%" >> \o rest.out, ub |-> rest.ub ]
  ELSE [ out |-> << >>, ub |-> TRUE ]

\* the stores of lines 180-183 past the end of replace, and the store of
\* line 206 past the end of buffer
OobReplace(f) == f.r >= kLogBufferSize
OobBuffer(f)  == f.totalLogChars >= kLogBufferSize

\* line 221 reads an argument that was never passed: buffer, used as the
\* format, holds a directive other than "%%"
FprintfUB(f, stdStream) == stdStream # "NULL" /\ Fprintf(f.final).ub

\* what a store past the end of a stack array, or a read of a missing
\* argument, can lead to
UBOutcomes(f) ==
  IF \/ OobReplace(f) \/ OobBuffer(f)
     \/ (kLogFileInfo[f.logType].stdOutput # "Null" /\ Fprintf(f.final).ub)
    THEN { "continue", "crash" } ELSE { "continue" }

\* the condition of line 211
FileStep(li, totalLogChars) == li.ext # NoExt /\ totalLogChars # 0

\* the first assert() of Write whose condition is false (lines 171, 208, 214)
FailedAssert(f, lf) ==
  IF ~f.assert171 THEN "171"
  ELSE IF ~f.assert208 THEN "208"
  ELSE IF FileStep(kLogFileInfo[f.logType], f.totalLogChars) /\ ~FileIsOpen(lf) THEN "214"
  ELSE "none"

\* Log::Write (lines 161-223) on logger state S = [logs, status, disk], with
\* f the values of lines 165-208.  Result: the new logs and disk, whether the
\* process died, and a record of what the call did.
WriteFormatted(S, logType, text, ndbg, ub, f) ==
  LET li   == kLogFileInfo[logType]
      lf   == S.logs[logType]
      failedAssert == FailedAssert(f, lf)
      abort171   == ~ndbg /\ failedAssert = "171"        \* assert() aborts
      crashed    == /\ ~abort171
                    /\ \/ f.runaway
                       \/ (OobReplace(f) \/ OobBuffer(f)) /\ ub = "crash"
      abortLater == ~abort171 /\ ~crashed /\ ~ndbg /\ failedAssert # "none"
      crashLater == /\ ~abort171 /\ ~crashed /\ ~abortLater
                    /\ FprintfUB(f, lf.stdStream) /\ ub = "crash"
      completed  == ~abort171 /\ ~crashed /\ ~abortLater /\ ~crashLater
      setsContent == ~abort171 /\ ~crashed               \* line 186 was reached
      toFile == ~abort171 /\ ~crashed /\ ~abortLater /\ FileStep(li, f.totalLogChars)
      toStream == completed /\ lf.stdStream # "NULL"
  IN  [ logs    |-> IF setsContent
                      THEN [ S.logs EXCEPT ![logType].hasContent = TRUE ]
                      ELSE S.logs,
        disk    |-> IF toFile THEN FileWrite(lf, S.disk, f.final) ELSE S.disk,
        aborted |-> ~completed,
        ob      |-> [ logType      |-> logType,
                      text         |-> text,
                      status       |-> S.status,
                      failedAssert |-> failedAssert,
                      crashed      |-> crashed \/ crashLater,
                      completed    |-> completed,
                      formatted    |-> ~abort171 /\ ~f.runaway,   \* line 206 was reached
                      fileWasOpen  |-> FileIsOpen(lf),
                      life         |-> lf.life,
                      path         |-> lf.path,
                      appended     |-> IF toFile /\ FileIsOpen(lf) THEN f.final ELSE << >>,
                      stream       |-> lf.stdStream,
                      toStream     |-> toStream,
                      emitted      |-> IF toStream THEN Fprintf(f.final).out ELSE << >> ] ]

\* a Write that sets hasContent only when it has bytes for the file
Write_FlagOnlyWithBytes(S, logType, text, ndbg, ub) ==
  Let(Format(logType, S.status, text), LAMBDA f :
  Let(WriteFormatted(S, logType, text, ndbg, ub, f), LAMBDA w :
      IF f.totalLogChars = 0 THEN [ w EXCEPT !.logs = S.logs ] ELSE w))

\* Log::Write (lines 161-223)
Write(S, logType, text, ndbg, ub) ==
  Let(Format(logType, S.status, text),
      LAMBDA f : WriteFormatted(S, logType, text, ndbg, ub, f))

\* Util::FailureHandler (lines 305-318) with doThrow = false, as File reports a
\* failed check: the message is logged through PKLOG_ERR
FailureMsg == << "a", LF >>
FailureHandler(S, ndbg, ub) == Write(S, "Error", FailureMsg, ndbg, ub)

\* a Close that also forgets what was written
Close_ClearsContent(logs) ==
  [ k \in LogType |->
      IF kLogFileInfo[k].ext # NoExt
        THEN [ FileClose(logs[k]) EXCEPT !.hasContent = FALSE ]
        ELSE logs[k] ]

\* a Close that also unbinds the streams
Close_UnbindsStreams(logs) ==
  [ k \in LogType |->
      IF kLogFileInfo[k].ext # NoExt
        THEN [ FileClose(logs[k]) EXCEPT !.stdStream = "NULL" ]
        ELSE logs[k] ]

\* a Close that leaves the File channel's file open
Close_SkipsFileChannel(logs) ==
  [ k \in LogType |->
      IF kLogFileInfo[k].ext # NoExt /\ k # "File" THEN FileClose(logs[k]) ELSE logs[k] ]

\* Log::Close (lines 225-234)
Close(logs) ==
  [ k \in LogType |->
      IF kLogFileInfo[k].ext # NoExt THEN FileClose(logs[k]) ELSE logs[k] ]

\* the switch of lines 146-152
StdStream(stdOutput) ==
  CASE stdOutput = "Err"  -> "stderr"
    [] stdOutput = "Out"  -> "stdout"
    [] stdOutput = "Null" -> "NULL"

\* lines 141-142 on T = [logs, status, disk, aborted, obs]: SetFile, Create
OpenFile(T, k, base, ok) ==
  Let(FileCreate(FileSetFile(T.logs[k], ReplaceExtension(base, kLogFileInfo[k].ext)),
                 T.disk, ok),
      LAMBDA cr : [ T EXCEPT !.logs[k] = cr.lf, !.disk = cr.disk ])

\* File::Create reports its failure through the failure handler, which logs
\* through Log::Get(); reenter says what a nested Log::Get() does
ReportFailure(T, ndbg, ub, reenter) ==
  IF reenter = "stuck" THEN [ T EXCEPT !.aborted = TRUE ]
  ELSE Let(FailureHandler(T, ndbg, ub),
           LAMBDA w : [ T EXCEPT !.logs = w.logs, !.disk = w.disk,
                                 !.aborted = w.aborted, !.obs = Append(@, w.ob) ])

\* a Configure that writes no banner
WriteBanner_Nothing(T, k) == T

\* lines 143-144: the banner, two File::Write calls
WriteBanner(T, k) ==
  IF T.aborted THEN T ELSE [ T EXCEPT !.disk = FileWrite(T.logs[k], @, Banner) ]

\* a stream binding that also resets the channel's hasContent flag
BindStream_ResetsContent(T, k) ==
  IF T.aborted THEN T
  ELSE [ T EXCEPT !.logs[k].stdStream = StdStream(kLogFileInfo[k].stdOutput),
                  !.logs[k].hasContent = FALSE ]

\* lines 146-152
BindStream(T, k) ==
  IF T.aborted THEN T
  ELSE [ T EXCEPT !.logs[k].stdStream = StdStream(kLogFileInfo[k].stdOutput) ]

\* one iteration of the loop of lines 135-153; created[k] says whether
\* File::Create succeeds for k
ConfigureOne(T, k, base, created, ndbg, ub, reenter) ==
  IF kLogFileInfo[k].ext = NoExt THEN BindStream(T, k)
  ELSE Let(OpenFile(T, k, base, created[k]), LAMBDA T1 :
       Let(IF created[k] THEN T1 ELSE ReportFailure(T1, ndbg, ub, reenter), LAMBDA T2 :
       Let(WriteBanner(T2, k), LAMBDA T3 : BindStream(T3, k))))

RECURSIVE ConfigureLoop(_, _, _, _, _, _, _)
ConfigureLoop(T, i, base, created, ndbg, ub, reenter) ==
  IF i > Len(LogTypeOrder) \/ T.aborted THEN T
  ELSE Let(ConfigureOne(T, LogTypeOrder[i], base, created, ndbg, ub, reenter),
           LAMBDA T1 : ConfigureLoop(T1, i + 1, base, created, ndbg, ub, reenter))

\* a Configure that does not close the files first
SetLogFileNames_NoClose(S, base, created, ndbg, ub, reenter) ==
  Let([ logs |-> S.logs, status |-> S.status, disk |-> S.disk,
        aborted |-> FALSE, obs |-> << >> ],
      LAMBDA T : ConfigureLoop(T, 1, base, created, ndbg, ub, reenter))

\* Log::SetLogFileNames (lines 121-154)
SetLogFileNames(S, base, created, ndbg, ub, reenter) ==
  Let([ logs |-> Close(S.logs), status |-> S.status, disk |-> S.disk,
        aborted |-> FALSE, obs |-> << >> ],
      LAMBDA T : ConfigureLoop(T, 1, base, created, ndbg, ub, reenter))

\* no FailureHandler call yet
NoHook == [ doThrow |-> FALSE, steps |-> << >> ]

\* a FailureHandler that raises the hard failure before it logs
FailureHandlerCall_ThrowsFirst(S, born, doThrow, created, ndbg, ub, reenter) ==
  IF doThrow
    THEN [ logs |-> S.logs, disk |-> S.disk, aborted |-> FALSE, obs |-> << >>,
           steps |-> << "DebugBreak", "throw" >> ]
    ELSE Let(FailureHandler(S, ndbg, ub), LAMBDA w :
             [ logs |-> w.logs, disk |-> w.disk, aborted |-> w.aborted, obs |-> << w.ob >>,
               steps |-> << "DebugBreak", "Write", "return false" >> ])

\* one call of Util::FailureHandler (lines 305-318), step by step: line 307,
\* then PKLOG_ERR( msg ) = Log::Get().Write( LogType::Error, msg ), where
\* Log::Get() constructs the Log when this is the first use (born = FALSE),
\* then lines 315-317.  steps lists what was begun, in order.
FailureHandlerCall(S, born, doThrow, created, ndbg, ub, reenter) ==
  Let(IF born THEN [ logs |-> S.logs, status |-> S.status, disk |-> S.disk,
                     aborted |-> FALSE, obs |-> << >> ]
              ELSE SetLogFileNames(S, kDefaultLogFileNames, created, ndbg, ub, reenter),
      LAMBDA T :
        IF T.aborted
          THEN [ logs |-> T.logs, disk |-> T.disk, aborted |-> TRUE, obs |-> T.obs,
                 steps |-> << "DebugBreak", "Log::Log" >> ]
          ELSE Let(FailureHandler(T, ndbg, ub), LAMBDA w :
                   [ logs |-> w.logs, disk |-> w.disk, aborted |-> w.aborted,
                     obs |-> Append(T.obs, w.ob),
                     steps |-> << "DebugBreak" >>
                                 \o (IF born THEN << >> ELSE << "Log::Log" >>)
                                 \o << "Write" >>
                                 \o (IF w.aborted THEN << >>
                                     ELSE IF doThrow THEN << "throw" >>
                                     ELSE << "return false" >>) ]))

\* Log::HasContent (lines 236-240)
HasContent(logs, logType) == logs[logType].hasContent

\* a teardown that opens the viewer when any channel has content
Destructor_AnyContent(logs) ==
  Let(Close(logs), LAMBDA closed :
      [ logs     |-> closed,
        commands |-> IF \A k \in LogType : ~HasContent(closed, k) THEN << >>
                     ELSE << [ exe |-> "notepad.exe",
                               path |-> closed["Error"].path,
                               openFiles |-> { k \in LogType : FileIsOpen(closed[k]) } ] >> ])

\* Log::~Log (lines 103-114) on the logs: the files after Close() and the
\* command lines started
Destructor(logs) ==
  Let(Close(logs), LAMBDA closed :
      [ logs     |-> closed,
        commands |-> IF ~HasContent(closed, "Error") THEN << >>
                     ELSE << [ exe |-> "notepad.exe",
                               path |-> closed["Error"].path,
                               openFiles |-> { k \in LogType : FileIsOpen(closed[k]) } ] >> ])

---------------------------------------------------------------------------
(* Util::PackBits and Util::UnpackBits (src/Util.h) on an unsigned T of n bytes *)

CHAR_BIT == 8

\* a & b and a | b on naturals
RECURSIVE BitAnd(_, _)
BitAnd(a, b) ==
  IF a = 0 \/ b = 0 THEN 0
  ELSE (a % 2) * (b % 2) + 2 * BitAnd(a \div 2, b \div 2)
RECURSIVE BitOr(_, _)
BitOr(a, b) ==
  IF a = 0 THEN b
  ELSE IF b = 0 THEN a
  ELSE (IF a % 2 = 1 \/ b % 2 = 1 THEN 1 ELSE 0) + 2 * BitOr(a \div 2, b \div 2)
Shl(v, s) == v * 2 ^ s
Shr(v, s) == v \div 2 ^ s
\* conversion to T on assignment
ToT(n, v) == v % 2 ^ (CHAR_BIT * n)

\* lines 405-407: for( i = 0; i < kHighBits; ++i ) maskHighBits |= kOne << (kEight-1-i)
RECURSIVE MaskHighLoop(_, _, _, _)
MaskHighLoop(n, kHighBits, i, maskHighBits) ==
  IF ~(i < kHighBits) THEN maskHighBits
  ELSE MaskHighLoop(n, kHighBits, i + 1,
                    ToT(n, BitOr(maskHighBits, Shl(1, CHAR_BIT - 1 - i))))

\* lines 409-414: highBitsSet |= maskHighBits; maskHighBits <<= kEight
RECURSIVE HighBitsSetLoop(_, _, _, _)
HighBitsSetLoop(n, i, maskHighBits, highBitsSet) ==
  IF ~(i < n) THEN highBitsSet
  ELSE HighBitsSetLoop(n, i + 1, ToT(n, Shl(maskHighBits, CHAR_BIT)),
                       ToT(n, BitOr(highBitsSet, maskHighBits)))

\* lines 423-425 and 466-468: for( i = 0; i < kBits; ++i ) mask |= kOne << i
RECURSIVE MaskLowLoop(_, _, _, _)
MaskLowLoop(n, kBits, i, mask) ==
  IF ~(i < kBits) THEN mask
  ELSE MaskLowLoop(n, kBits, i + 1, ToT(n, BitOr(mask, Shl(1, i))))

\* lines 428-433: result |= ( sourceInt & maskLowBits ) >> ( i * kHighBits );
\* maskLowBits <<= kEight
RECURSIVE PackLoop(_, _, _, _, _, _)
PackLoop(n, kHighBits, sourceInt, i, maskLowBits, result) ==
  IF ~(i < n) THEN result
  ELSE PackLoop(n, kHighBits, sourceInt, i + 1,
                ToT(n, Shl(maskLowBits, CHAR_BIT)),
                ToT(n, BitOr(result, Shr(BitAnd(sourceInt, maskLowBits), i * kHighBits))))

\* PackBits< kBitsPerByte, T >( sourceInt ) with sizeof( T ) = n (lines 387-436)
PackBits(kBitsPerByte, n, sourceInt) ==
  IF n = 1 THEN sourceInt
  ELSE IF kBitsPerByte = CHAR_BIT THEN sourceInt
  ELSE Let(CHAR_BIT - kBitsPerByte, LAMBDA kHighBits :
       Let(HighBitsSetLoop(n, 0, MaskHighLoop(n, kHighBits, 0, 0), 0), LAMBDA highBitsSet :
           IF BitAnd(sourceInt, highBitsSet) # 0 THEN sourceInt
           ELSE PackLoop(n, kHighBits, sourceInt, 0,
                         MaskLowLoop(n, kBitsPerByte, 0, 0), 0)))

\* an unpacking loop that moves the mask a whole byte each time
RECURSIVE UnpackLoop_ByteMask(_, _, _, _, _, _)
UnpackLoop_ByteMask(n, kBits, sourceInt, i, mask, result) ==
  IF ~(i < n) THEN result
  ELSE UnpackLoop_ByteMask(n, kBits, sourceInt, i + 1,
                           ToT(n, Shl(mask, CHAR_BIT)),
                           ToT(n, BitOr(result, Shl(BitAnd(sourceInt, mask),
                                                    i * (CHAR_BIT - kBits)))))
UnpackBits_ByteMask(kBits, n, sourceInt) ==
  IF kBits = CHAR_BIT THEN sourceInt
  ELSE UnpackLoop_ByteMask(n, kBits, sourceInt, 0, MaskLowLoop(n, kBits, 0, 0), 0)

\* lines 471-476: result |= ( sourceInt & mask ) << ( i * kHighBits ); mask <<= kBits
RECURSIVE UnpackLoop(_, _, _, _, _, _)
UnpackLoop(n, kBits, sourceInt, i, mask, result) ==
  IF ~(i < n) THEN result
  ELSE UnpackLoop(n, kBits, sourceInt, i + 1,
                  ToT(n, Shl(mask, kBits)),
                  ToT(n, BitOr(result, Shl(BitAnd(sourceInt, mask),
                                           i * (CHAR_BIT - kBits)))))

\* UnpackBits< kBits, T >( sourceInt ) with sizeof( T ) = n (lines 451-479)
UnpackBits(kBits, n, sourceInt) ==
  IF kBits = CHAR_BIT THEN sourceInt
  ELSE UnpackLoop(n, kBits, sourceInt, 0, MaskLowLoop(n, kBits, 0, 0), 0)

\* no call yet
NoBits == [ k |-> 0, n |-> 0, ops |-> << >>, vals |-> << >> ]

---------------------------------------------------------------------------
(* Inputs *)

\* the value with digits d[1] (lowest) .. d[n] in the given base
RECURSIVE Compose(_, _, _)
Compose(d, n, base) ==
  IF n = 0 THEN 0 ELSE d[1] + base * Compose([ i \in 1 .. n - 1 |-> d[i + 1] ], n - 1, base)

\* bytes around the k-bit boundary, and patterns
ByteSamples(k) ==
  { 0, 1, 2 ^ (k - 1), 2 ^ k - 1, 2 ^ k, 85, 2 ^ (CHAR_BIT - 1), 2 ^ CHAR_BIT - 1 }
\* k-bit groups
ChunkSamples(k) == { 0, 1, 2 ^ (k - 1), 2 ^ k - 1, 85 % 2 ^ k }

\* arguments for a T of n bytes: every value of one byte, the values made of
\* sample bytes, and the values made of sample k-bit groups
BitInputs(k, n) ==
  (IF n = 1 THEN 0 .. 2 ^ CHAR_BIT - 1 ELSE { })
    \cup { Compose(d, n, 2 ^ CHAR_BIT) : d \in [ 1 .. n -> ByteSamples(k) ] }
    \cup { Compose(d, n, 2 ^ k) : d \in [ 1 .. n -> ChunkSamples(k) ] }

Char == { "a", LF, CR }

RECURSIVE SeqsOfLen(_, _)
SeqsOfLen(S, n) ==
  IF n = 0 THEN { << >> }
  ELSE { Append(t, c) : t \in SeqsOfLen(S, n - 1), c \in S }
SeqsUpTo(S, n) == UNION { SeqsOfLen(S, k) : k \in 0 .. n }

\* rendered texts: every text of letters and line feeds that fits, each
\* full window followed by one more char (a text longer than the buffer
\* holds), the short texts with carriage returns, and the short texts
\* with percent signs
TextsFmt ==
  SeqsUpTo({ "a", LF }, kLogBufferSize - 1)
    \cup { Append(w, "a") : w \in SeqsOfLen({ "a", LF }, kLogBufferSize - 1) }
    \cup SeqsUpTo(Char, MaxCRText)
    \cup SeqsUpTo({ "a", "%" }, MaxPctText)

\* status strings of 0 .. kMaxStatusSize + 1 chars
StatusesFmt == SeqsUpTo({ "S" }, kMaxStatusSize + 1)

Texts    == { << >>, << "a", LF >> }
Statuses == { << >>, << "S" >> }

FileKinds == { k \in LogType : kLogFileInfo[k].ext # NoExt }
\* File::Create succeeds for every channel, or fails for one of them
CreatedOutcomes ==
  { [ k \in LogType |-> k # bad ] : bad \in { "none", "Error", "Note" } }

\* the outcomes of undefined behaviour in the Write that reports a failed Create
ReportUB(status, created) ==
  IF \A k \in FileKinds : created[k] THEN { "continue" }
  ELSE UBOutcomes(Format("Error", status, FailureMsg))

\* Log::Get() entered again while `static Log log` is being constructed:
\* the call goes through, or never returns
ReenterOutcomes(created) ==
  IF \A k \in FileKinds : created[k] THEN { "proceed" } ELSE { "proceed", "stuck" }

---------------------------------------------------------------------------
(* Actions *)

LoggerState == [ logs |-> logs_, status |-> status_, disk |-> disk ]

\* first use: Log::Get constructs the singleton, Log::Log calls
\* SetLogFileNames( kDefaultLogFileNames )  (lines 247-258)
Get(created) ==
  /\ phase = "unborn"
  /\ \E ub \in ReportUB(status_, created), reenter \in ReenterOutcomes(created) :
     \E T \in { SetLogFileNames(LoggerState, kDefaultLogFileNames, created, ndebug, ub, reenter) } :
         /\ phase' = IF T.aborted THEN "aborted" ELSE "alive"
         /\ logs_' = T.logs
         /\ disk' = T.disk
         /\ obs' = T.obs
         /\ written' = written \cup { T.obs[i].logType : i \in 1 .. Len(T.obs) }
         /\ nReports' = nReports + Len(T.obs)
  /\ lastOp' = "Get"
  /\ UNCHANGED << ndebug, status_, launched, nWrites, nConfigures, hook, bits >>

\* Log::Get().SetLogFileNames( base )
Configure(base, created) ==
  /\ phase = "alive"
  /\ nConfigures < MaxConfigures
  /\ nConfigures' = nConfigures + 1
  /\ \E ub \in ReportUB(status_, created) :
     \E T \in { SetLogFileNames(LoggerState, base, created, ndebug, ub, "proceed") } :
         /\ phase' = IF T.aborted THEN "aborted" ELSE "alive"
         /\ logs_' = T.logs
         /\ disk' = T.disk
         /\ obs' = T.obs
         /\ written' = written \cup { T.obs[i].logType : i \in 1 .. Len(T.obs) }
         /\ nReports' = nReports + Len(T.obs)
  /\ lastOp' = "SetLogFileNames"
  /\ UNCHANGED << ndebug, status_, launched, nWrites, hook, bits >>

\* Log::Get().Write( logType, ... ) rendering to text
DoWrite(limit, logType, text) ==
  /\ phase = "alive"
  /\ nWrites < limit
  /\ \E ub \in UBOutcomes(Format(logType, status_, text)) :
     \E w \in { Write(LoggerState, logType, text, ndebug, ub) } :
         /\ phase' = IF w.aborted THEN "aborted" ELSE "alive"
         /\ logs_' = w.logs
         /\ disk' = w.disk
         /\ obs' = << w.ob >>
  /\ nWrites' = nWrites + 1
  /\ written' = written \cup { logType }
  /\ lastOp' = "Write"
  /\ UNCHANGED << ndebug, status_, launched, nConfigures, nReports, hook, bits >>

\* Log::Get().Close()
DoClose ==
  /\ phase = "alive"
  /\ logs_' = Close(logs_)
  /\ lastOp' = "Close"
  /\ obs' = << >>
  /\ UNCHANGED << phase, ndebug, status_, disk, launched, nWrites, nConfigures, written, nReports, hook, bits >>

\* a SetStatus that appends to the status
SetStatus_Appends(status) ==
  /\ phase = "alive"
  /\ status_' = status_ \o status
  /\ lastOp' = "SetStatus"
  /\ obs' = << >>
  /\ UNCHANGED << phase, ndebug, logs_, disk, launched, nWrites, nConfigures, written, nReports, hook, bits >>

\* Log::Get().SetStatus( status )  (lines 242-245)
SetStatus(status) ==
  /\ phase = "alive"
  /\ status_' = status
  /\ lastOp' = "SetStatus"
  /\ obs' = << >>
  /\ UNCHANGED << phase, ndebug, logs_, disk, launched, nWrites, nConfigures, written, nReports, hook, bits >>

\* Log::Get().HasContent( logType ): const, returns the flag
DoHasContent(logType) ==
  /\ phase = "alive"
  /\ UNCHANGED vars

\* process exit: ~Log runs
Destroy ==
  /\ phase = "alive"
  /\ \E d \in { Destructor(logs_) } :
         /\ logs_' = d.logs
         /\ launched' = launched \o d.commands
  /\ phase' = "destroyed"
  /\ lastOp' = "~Log"
  /\ obs' = << >>
  /\ UNCHANGED << ndebug, status_, disk, nWrites, nConfigures, written, nReports, hook, bits >>

\* a failed PK_VALID( expr ) or PK_IFINVALID_THROW( expr ): the macro calls
\* Util::FailureHandler; a raised failure is caught by the caller
Hook(doThrow) ==
  /\ phase \in { "unborn", "alive" }
  /\ nReports < MaxReports
  /\ \E created \in IF phase = "unborn" THEN CreatedOutcomes
                                        ELSE { [ k \in LogType |-> TRUE ] } :
     \E ub \in UBOutcomes(Format("Error", status_, FailureMsg)),
        reenter \in ReenterOutcomes(created) :
     \E h \in { FailureHandlerCall(LoggerState, phase = "alive", doThrow, created,
                                   ndebug, ub, reenter) } :
         /\ phase' = IF h.aborted THEN "aborted" ELSE "alive"
         /\ logs_' = h.logs
         /\ disk' = h.disk
         /\ obs' = h.obs
         /\ written' = written \cup { h.obs[i].logType : i \in 1 .. Len(h.obs) }
         /\ nReports' = nReports + Len(h.obs)
         /\ hook' = [ doThrow |-> doThrow, steps |-> h.steps ]
  /\ lastOp' = "FailureHandler"
  /\ UNCHANGED << ndebug, status_, launched, nWrites, nConfigures, bits >>

Init ==
  /\ phase = "unborn"
  /\ ndebug \in BOOLEAN
  /\ logs_ = [ k \in LogType |-> LogFile ]
  /\ status_ = << >>
  /\ disk = [ p \in Paths |-> << >> ]
  /\ launched = << >>
  /\ nWrites = 0
  /\ nConfigures = 0
  /\ written = { }
  /\ nReports = 0
  /\ hook = NoHook
  /\ bits = NoBits
  /\ lastOp = "none"
  /\ obs = << >>

Next ==
  \/ \E c \in CreatedOutcomes : Get(c)
  \/ \E b \in Bases, c \in CreatedOutcomes : Configure(b, c)
  \/ \E k \in LogType, t \in Texts : DoWrite(MaxWrites, k, t)
  \/ DoClose
  \/ \E s \in Statuses : SetStatus(s)
  \/ \E k \in LogType : DoHasContent(k)
  \/ Destroy

Spec == Init /\ [][Next]_vars

\* failed checks in the life of the logger
NextHook ==
  \/ \E c \in CreatedOutcomes : Get(c)
  \/ \E d \in BOOLEAN : Hook(d)
  \/ DoClose
  \/ \E s \in Statuses : SetStatus(s)
  \/ Destroy

SpecHook == Init /\ [][NextHook]_vars

\* PackBits< k >( v ) on the latest value
DoPackBits ==
  /\ bits.ops # << >> \/ bits.vals # << >>
  /\ Len(bits.ops) < 2
  /\ bits' = [ bits EXCEPT !.ops = Append(@, "Pack"),
                           !.vals = Append(@, PackBits(bits.k, bits.n, bits.vals[Len(bits.vals)])) ]
  /\ UNCHANGED << phase, ndebug, logs_, status_, disk, launched, nWrites, nConfigures,
                  written, nReports, hook, lastOp, obs >>

\* UnpackBits< k >( v ) on the latest value
DoUnpackBits ==
  /\ bits.ops # << >> \/ bits.vals # << >>
  /\ Len(bits.ops) < 2
  /\ bits' = [ bits EXCEPT !.ops = Append(@, "Unpack"),
                           !.vals = Append(@, UnpackBits(bits.k, bits.n, bits.vals[Len(bits.vals)])) ]
  /\ UNCHANGED << phase, ndebug, logs_, status_, disk, launched, nWrites, nConfigures,
                  written, nReports, hook, lastOp, obs >>

\* any 0 < k < CHAR_BIT, any T of up to MaxBytes bytes, any argument
InitBits ==
  /\ phase = "unborn"
  /\ ndebug = FALSE
  /\ logs_ = [ k \in LogType |-> LogFile ]
  /\ status_ = << >>
  /\ disk = [ p \in Paths |-> << >> ]
  /\ launched = << >>
  /\ nWrites = 0
  /\ nConfigures = 0
  /\ written = { }
  /\ nReports = 0
  /\ hook = NoHook
  /\ \E k \in 1 .. CHAR_BIT - 1, n \in 1 .. MaxBytes :
       \E x \in BitInputs(k, n) :
         bits = [ k |-> k, n |-> n, ops |-> << >>, vals |-> << x >> ]
  /\ lastOp = "none"
  /\ obs = << >>

NextBits == DoPackBits \/ DoUnpackBits

SpecBits == InitBits /\ [][NextBits]_vars

\* the formatter on its own: a constructed logger with every file open, any
\* status, and one Write of any text
InitFmt ==
  /\ phase = "alive"
  /\ ndebug \in BOOLEAN
  /\ \E T \in { SetLogFileNames([ logs |-> [ k \in LogType |-> LogFile ], status |-> << >>,
                                    disk |-> [ p \in Paths |-> << >> ] ],
                                  kDefaultLogFileNames, [ k \in LogType |-> TRUE ],
                                  TRUE, "continue", "proceed") } :
       logs_ = T.logs /\ disk = T.disk
  /\ status_ \in StatusesFmt
  /\ launched = << >>
  /\ nWrites = 0
  /\ nConfigures = 0
  /\ written = { }
  /\ nReports = 0
  /\ hook = NoHook
  /\ bits = NoBits
  /\ lastOp = "Get"
  /\ obs = << >>

NextFmt == \E k \in LogType, t \in TextsFmt : DoWrite(1, k, t)

SpecFmt == InitFmt /\ [][NextFmt]_vars

---------------------------------------------------------------------------
(* Claims *)

\* the values of lines 165-208 in the Write that obs[i] records
FormatOf(ob) == Format(ob.logType, ob.status, ob.text)
Obs == { obs[i] : i \in 1 .. Len(obs) }

\* C1: in every Write that gets to line 206, the status prefix plus body is
\* shorter than kLogBufferSize, so that the terminating NUL is stored inside
\* buffer and no index >= kLogBufferSize of it is written.
C1_PrefixPlusBodyBelowCapacity ==
  \A ob \in Obs :
    ob.formatted =>
      /\ FormatOf(ob).totalLogChars < kLogBufferSize
      /\ ~OobBuffer(FormatOf(ob))

\* C2: in the LF-to-CRLF loop of every Write the cursor r never passes the last
\* slot of replace (offset kLogBufferSize - 1): the loop ends there and the
\* rest of the input is dropped.
C2_ReplaceCursorInBounds ==
  \A ob \in Obs :
    (ndebug \/ ob.failedAssert # "171") =>
      /\ FormatOf(ob).r <= kLogBufferSize - 1
      /\ ~FormatOf(ob).runaway

\* C3: a Write whose rendered text is longer than the buffer holds keeps the
\* leading window and completes normally: no assert fails, and the scan bound
\* be stays inside buffer.
C3_LongTextIsTruncatedQuietly ==
  \A ob \in Obs :
    Len(ob.text) > kLogBufferSize - 1 =>
      /\ FormatOf(ob).buffer = SubSeq(ob.text, 1, kLogBufferSize - 1)
      /\ ob.failedAssert = "none"
      /\ ob.completed
      /\ FormatOf(ob).be \in 0 .. kLogBufferSize - 1

\* C4: after Close(), a Write on a file-backed channel does not fail, its
\* bound stream still receives the message, and no bytes reach the file.
C4_WriteAfterCloseDoesNotFail ==
  (lastOp = "Write" /\ nReports = 0) =>
    \A ob \in Obs :
      (ob.logType \in FileKinds /\ ob.life = "closed") =>
        /\ ob.completed
        /\ ob.appended = << >>
        /\ ob.stream # "NULL" => (ob.toStream /\ ob.emitted = FormatOf(ob).final)

\* C5: a channel whose file could not be created during Configure stays
\* closed with its stream bound, the failure having been reported on the
\* Error channel, and every later Write on it skips the file, writes the
\* stream and does not fail; the open is not tried again.
C5_FailedOpenIsSkippedQuietly ==
  /\ \A k \in FileKinds :
       (phase = "alive" /\ logs_[k].life = "openFailed") =>
         /\ ~FileIsOpen(logs_[k])
         /\ logs_[k].stdStream = StdStream(kLogFileInfo[k].stdOutput)
         /\ nReports > 0 /\ "Error" \in written
  /\ lastOp = "Write" =>
       \A ob \in Obs :
         ob.life = "openFailed" =>
           /\ ob.completed
           /\ ~ob.fileWasOpen /\ ob.appended = << >>
           /\ ob.stream # "NULL" => ob.toStream
           /\ logs_[ob.logType].life = "openFailed"

\* C6 as stated: HasContent(kind) is false right after every Configure, a
\* re-Configure after Writes included (here in the runs in which every file
\* was created).
C6_FalseAfterEveryConfigure ==
  (phase = "alive" /\ lastOp \in { "Get", "SetLogFileNames" } /\ nReports = 0) =>
    \A k \in LogType : ~HasContent(logs_, k)

\* C6 amended: a Configure never clears a flag.  It leaves every channel's
\* HasContent as it was (false, at construction), except for a channel that
\* a Write is made on while the Configure runs; a Write that returns leaves
\* its channel's flag true.
C6_ConfigureKeepsHasContent ==
  [][ /\ ((phase = "unborn" \/ nConfigures' # nConfigures) /\ phase' = "alive") =>
           \A k \in LogType :
             HasContent(logs_', k) <=>
               (HasContent(logs_, k) \/ \E i \in 1 .. Len(obs') : obs'[i].logType = k)
      /\ (nWrites' # nWrites /\ phase' = "alive") =>
           \A ob \in { obs'[i] : i \in 1 .. Len(obs') } : HasContent(logs_', ob.logType)
    ]_vars

\* C6 witness: a re-Configure that created every file, after a Write on Note
C6_ReconfiguredAfterWrite ==
  /\ phase = "alive" /\ lastOp = "SetLogFileNames" /\ nReports = 0
  /\ "Note" \in written
  /\ HasContent(logs_, "Note")

\* C7: each channel's hasContent flag only goes from false to true, and only
\* in a step that makes a Write on that channel.
C7_HasContentMonotonic ==
  [][ \A k \in LogType :
        /\ HasContent(logs_, k) => HasContent(logs_', k)
        /\ (~HasContent(logs_, k) /\ HasContent(logs_', k)) =>
             \E i \in 1 .. Len(obs') : obs'[i].logType = k
    ]_vars

\* C7 witness: a flag that is set, after a Write on Note and then a Close
C7_FlagSurvivesClose ==
  phase = "alive" /\ lastOp = "Close" /\ nReports = 0 /\ HasContent(logs_, "Note")

\* C8: when ~Log has run, every channel file is closed, and the viewer was
\* started, with all files already closed, on the Error file's path exactly
\* if a Write was made on the Error channel.
C8_ViewerIffErrorWritten ==
  phase = "destroyed" =>
    /\ \A k \in LogType : ~FileIsOpen(logs_[k])
    /\ launched = IF "Error" \in written
                    THEN << [ exe |-> "notepad.exe", path |-> logs_["Error"].path,
                              openFiles |-> { } ] >>
                    ELSE << >>

\* C8 witness: teardown after a Write on Error
C8_ViewerLaunched ==
  phase = "destroyed" /\ Len(launched) = 1 /\ written = { "Error" } /\ nReports = 0

NoPercent(text) == \A i \in 1 .. Len(text) : text[i] # "%"
NoNewline(text) == \A i \in 1 .. Len(text) : text[i] \notin { LF, CR }

\* C9: the bytes a Write appends to the Error or Warning file are the
\* channel's header text followed by the rendered message.
C9_HeaderLeadsTheLine ==
  \A ob \in Obs :
    ( /\ ob.logType \in { "Error", "Warning" }
      /\ ob.completed /\ ob.fileWasOpen
      /\ ob.status = << >> /\ ob.text # << >> /\ NoNewline(ob.text)
      /\ Len(kLogFileInfo[ob.logType].header) + Len(ob.text) + 2 < kLogBufferSize ) =>
    LET header == kLogFileInfo[ob.logType].header
    IN  /\ Len(ob.appended) >= Len(header) + Len(ob.text)
        /\ SubSeq(ob.appended, 1, Len(header) + Len(ob.text)) = header \o ob.text
        /\ SubSeq(disk[ob.path], 1, Len(Banner)) = Banner

EndsInCRLF(t) == Len(t) >= 2 /\ t[Len(t) - 1] = CR /\ t[Len(t)] = LF
CountLF(text) == Cardinality({ i \in 1 .. Len(text) : text[i] = LF })
\* a Write whose prefix and text fit the buffer however the text expands
UnderCapacity(ob) ==
  Len(StatusPrefix(kLogFileInfo[ob.logType], ob.status)) + Len(ob.text) + CountLF(ob.text)
    < kLogBufferSize

RECURSIVE ConvertAll(_)
ConvertAll(t) ==
  IF t = << >> THEN << >>
  ELSE LET n == Len(t)
       IN  ConvertAll(SubSeq(t, 1, n - 1))
             \o (IF t[n] = LF /\ (n = 1 \/ t[n - 1] # CR) THEN << CR, LF >> ELSE << t[n] >>)

\* C11: the text a Write produces is the rendered message with every line
\* feed that is not preceded by a carriage return, at any position including
\* the very first, replaced by CR LF, every CR LF pair left as it is; and
\* converting that text again changes nothing.
C11_EveryBareLFConverted ==
  \A ob \in Obs :
    (ob.completed /\ UnderCapacity(ob)) =>
      /\ FormatOf(ob).replace = ConvertAll(ob.text)
      /\ ConvertAll(FormatOf(ob).replace) = FormatOf(ob).replace

\* C12: the final text of a Write starts with a status prefix exactly when
\* the channel is Error, Warning or File and the status is not empty; the
\* prefix is the first min( length, kMaxStatusSize ) characters of the status
\* followed by ": ", the converted message follows it, and the file gets
\* exactly that text.
C12_StatusPrefixRule ==
  \A ob \in Obs :
    ob.formatted =>
      LET f      == FormatOf(ob)
          expect == IF ob.logType \in { "Error", "Warning", "File" } /\ ob.status # << >>
                      THEN SubSeq(ob.status, 1, Min(Len(ob.status), kMaxStatusSize))
                             \o << ":", " " >>
                      ELSE << >>
      IN  /\ f.statusSize = Len(expect)
          /\ Len(f.final) >= Len(expect)
          /\ f.final = expect \o SubSeq(f.replace, 1, Len(f.final) - Len(expect))
          /\ (ob.completed /\ ob.fileWasOpen /\ ob.logType \in FileKinds) =>
               ob.appended = f.final

\* C12 witness: a status one longer than kMaxStatusSize, cut to kMaxStatusSize
\* characters in front of a Warning text
C12_TruncatedStatusPrefixed ==
  \E ob \in Obs :
    /\ ob.logType = "Warning" /\ ob.completed /\ ob.text = << "a" >>
    /\ Len(ob.status) = kMaxStatusSize + 1
    /\ ob.appended = SubSeq(ob.status, 1, kMaxStatusSize) \o << ":", " ", "a" >>

\* C13: a Write on a channel with an open file and a bound stream emits to
\* the stream the bytes it appends to the file, whatever the final text is
\* (here for the texts fprintf has defined behaviour on as a format).
C13_StreamGetsFileBytes ==
  \A ob \in Obs :
    ( /\ ob.completed /\ ob.fileWasOpen /\ ob.logType \in FileKinds /\ ob.stream # "NULL"
      /\ ~Fprintf(FormatOf(ob).final).ub ) =>
      ob.emitted = ob.appended

\* C14: a channel's file is open exactly if the channel has an extension and
\* the last lifecycle operation on it was a successful open; the opens happen
\* in Configure only, Close and teardown leave every file closed, Write and
\* SetStatus leave the open states alone, and Screen is never open and never
\* written to a file.
C14_OpenIffOpenedNotClosed ==
  [][ /\ \A k \in LogType :
           FileIsOpen(logs_'[k]) <=>
             (kLogFileInfo[k].ext # NoExt /\ logs_'[k].life = "opened")
      /\ lastOp' \in { "Close", "~Log" } => \A k \in LogType : ~FileIsOpen(logs_'[k])
      /\ lastOp' \in { "Write", "SetStatus" } =>
           \A k \in LogType : FileIsOpen(logs_'[k]) = FileIsOpen(logs_[k])
      /\ ~FileIsOpen(logs_'["Screen"])
      /\ \A i \in 1 .. Len(obs') :
           obs'[i].logType = "Screen" => (obs'[i].appended = << >> /\ disk' = disk)
    ]_vars

\* C14 witness: after a Configure in which the Note file could not be
\* created, Error is open, Note and Screen are not
C14_OpenAndFailedSideBySide ==
  /\ phase = "alive" /\ lastOp = "SetLogFileNames"
  /\ logs_["Note"].life = "openFailed" /\ ~FileIsOpen(logs_["Note"])
  /\ FileIsOpen(logs_["Error"]) /\ ~FileIsOpen(logs_["Screen"])

\* C15: after any Configure each channel is bound to its configured stream
\* (Error, Warning: stderr; Screen, Note: stdout; File: none), no Write on
\* File emits to a stream, and every Write on the other channels does (here
\* in the runs in which every file was created).
C15_StreamsBoundAndUsed ==
  /\ phase = "alive" =>
       /\ logs_["Error"].stdStream = "stderr" /\ logs_["Warning"].stdStream = "stderr"
       /\ logs_["Screen"].stdStream = "stdout" /\ logs_["Note"].stdStream = "stdout"
       /\ logs_["File"].stdStream = "NULL"
  /\ (lastOp = "Write" /\ nReports = 0) =>
       \A ob \in Obs :
         IF ob.logType = "File" THEN ~ob.toStream /\ ob.emitted = << >>
                                ELSE ob.toStream

\* C16: the file of every channel that Configure opened starts with the
\* banner, the bytes of a Write come after it, at the end of the file, and
\* every Write finds its channel configured.
C16_BannerFirst ==
  /\ \A k \in FileKinds :
       FileIsOpen(logs_[k]) =>
         /\ logs_[k].path[2] = kLogFileInfo[k].ext
         /\ Len(disk[logs_[k].path]) >= Len(Banner)
         /\ SubSeq(disk[logs_[k].path], 1, Len(Banner)) = Banner
  /\ written # { } => phase # "unborn"
  /\ \A ob \in Obs :
       /\ ob.logType \in FileKinds => ob.life # "none"
       /\ ob.logType = "Screen" => ob.stream = "stdout"
       /\ (lastOp = "Write" /\ ob.fileWasOpen /\ ob.appended # << >>) =>
            LET file == disk[ob.path]
                n    == Len(file) - Len(ob.appended)
            IN  /\ n >= Len(Banner)
                /\ SubSeq(file, 1, Len(Banner)) = Banner
                /\ SubSeq(file, n + 1, Len(file)) = ob.appended

\* C16 witness: the Error file holds the banner and then the bytes of a Write
C16_WriteFollowsBanner ==
  /\ lastOp = "Write" /\ nReports = 0
  /\ \E ob \in Obs :
       /\ ob.logType = "Error" /\ ob.appended # << >>
       /\ disk[ob.path] = Banner \o ob.appended

\* C17: every FailureHandler call starts with the debugger break; it raises
\* the hard failure (fatal) or returns false (not fatal) only as its last
\* step and only after the Write of its message on Error; a call that raised
\* or returned has made that Write, so HasContent( Error ) is true after it.
C17_BreakLogThenRaiseOrReturn ==
  lastOp = "FailureHandler" =>
    LET steps == hook.steps
        n     == Len(steps)
    IN  /\ n >= 1 /\ steps[1] = "DebugBreak"
        /\ \A i \in 1 .. n :
             steps[i] \in { "throw", "return false" } =>
               (i = n /\ i > 1 /\ steps[i - 1] = "Write")
        /\ \A i \in 1 .. n : steps[i] = "throw" => hook.doThrow
        /\ \A i \in 1 .. n : steps[i] = "return false" => ~hook.doThrow
        /\ phase = "alive" =>
             /\ steps[n] = IF hook.doThrow THEN "throw" ELSE "return false"
             /\ HasContent(logs_, "Error")
             /\ obs # << >>
             /\ obs[Len(obs)].logType = "Error" /\ obs[Len(obs)].text = FailureMsg
             /\ obs[Len(obs)].completed

\* C17 witness: a fatal check on a constructed logger: break, Write, throw
C17_FatalCheckLogged ==
  /\ lastOp = "FailureHandler" /\ hook.doThrow
  /\ hook.steps = << "DebugBreak", "Write", "throw" >>
  /\ HasContent(logs_, "Error")
  /\ disk[logs_["Error"].path] = Banner \o << "a", CR, LF >>

\* C18: no FailureHandler call enters file-open logic: none constructs the
\* Log, and so none runs Configure, whether or not it is the first use of
\* the singleton (here for the calls during which every file open succeeds).
C18_ReportNeverOpensFiles ==
  (lastOp = "FailureHandler" /\ phase = "alive" /\ nReports = 1) =>
    /\ \A i \in 1 .. Len(hook.steps) : hook.steps[i] # "Log::Log"
    /\ \A ob \in Obs : ob.logType \in FileKinds => ob.life # "none"

\* C19: Close() leaves every channel file closed, a second Close changes
\* nothing, and Close leaves every stream binding, every hasContent flag, the
\* status string and the files' bytes as they were.
C19_CloseFrame ==
  [][ lastOp' = "Close" =>
        /\ \A k \in LogType :
             /\ ~FileIsOpen(logs_'[k])
             /\ logs_'[k].stdStream = logs_[k].stdStream
             /\ logs_'[k].hasContent = logs_[k].hasContent
        /\ status_' = status_ /\ disk' = disk /\ launched' = launched
        /\ Close(logs_') = logs_'
        /\ lastOp = "Close" => logs_' = logs_
    ]_vars

\* C19 witness: after a Close, with a status set, a flag set and the streams
\* still bound
C19_ClosedWithStateKept ==
  /\ phase = "alive" /\ lastOp = "Close" /\ nReports = 0
  /\ status_ = << "S" >>
  /\ HasContent(logs_, "Warning")
  /\ logs_["Warning"].stdStream = "stderr"
  /\ \A k \in LogType : ~FileIsOpen(logs_[k])

\* C20: SetStatus replaces the status with its argument and changes nothing
\* else; a Write uses the status current at the call for its prefix, and only
\* appends to the files, so that bytes written earlier stay as they are.
C20_SetStatusFrame ==
  [][ /\ lastOp' = "SetStatus" =>
           /\ status_' \in Statuses
           /\ logs_' = logs_ /\ disk' = disk /\ launched' = launched /\ phase' = phase
      /\ lastOp' = "Write" =>
           /\ status_' = status_
           /\ \A i \in 1 .. Len(obs') :
                /\ obs'[i].status = status_
                /\ FormatOf(obs'[i]).prefix =
                     IF obs'[i].logType \in { "Error", "Warning", "File" } /\ status_ # << >>
                       THEN SubSeq(status_, 1, Min(Len(status_), kMaxStatusSize))
                              \o << ":", " " >>
                       ELSE << >>
           /\ \A p \in Paths :
                /\ Len(disk'[p]) >= Len(disk[p])
                /\ SubSeq(disk'[p], 1, Len(disk[p])) = disk[p]
    ]_vars

\* C20 witness: the status was set after a Write under the empty status; the
\* line written before is as it was
C20_StatusSetAfterWrite ==
  /\ phase = "alive" /\ lastOp = "SetStatus" /\ nReports = 0
  /\ status_ = << "S" >>
  /\ HasContent(logs_, "Error")
  /\ disk[logs_["Error"].path] = Banner \o << "a", CR, LF >>

\* C21: no channel ever holds two open files: an open channel holds the file
\* of its current path and nothing else, a closed one holds nothing; after a
\* Configure every file channel is on the new base name, and a Write changes
\* no file but the one its channel is on now.
C21_OldFileClosedFirst ==
  [][ /\ \A k \in LogType :
           /\ Cardinality(logs_'[k].held) <= 1
           /\ logs_'[k].held = IF FileIsOpen(logs_'[k]) THEN { logs_'[k].path } ELSE { }
      /\ (lastOp' \in { "Get", "SetLogFileNames" } /\ phase' = "alive") =>
           \E b \in Bases :
             \A k \in FileKinds : logs_'[k].path = << b, kLogFileInfo[k].ext >>
      /\ lastOp' = "Write" =>
           \A p \in Paths :
             disk'[p] # disk[p] =>
               \E i \in 1 .. Len(obs') : p = logs_[obs'[i].logType].path
    ]_vars

\* C21 witness: a Write on Note after a re-Configure from Log to Alt reached
\* Alt.log and left Log.log as it was
C21_WriteReachesNewFile ==
  /\ lastOp = "Write" /\ nConfigures = 1 /\ nReports = 0
  /\ logs_["Note"].path = << "Alt", "log" >>
  /\ disk[<< "Alt", "log" >>] = Banner \o << "a", CR, LF >>
  /\ disk[<< "Log", "log" >>] = Banner

\* C22: a Write whose final text is empty (empty message, no prefix) leaves
\* every file as it was and still sets its channel's hasContent flag; and
\* teardown after one Write on Error that left the Error file with the banner
\* alone starts the viewer on that file.
C22_EmptyWriteSetsFlag ==
  [][ /\ lastOp' = "Write" =>
           \A i \in 1 .. Len(obs') :
             (obs'[i].text = << >> /\ FormatOf(obs'[i]).final = << >>) =>
               /\ obs'[i].completed /\ obs'[i].appended = << >>
               /\ disk' = disk
               /\ HasContent(logs_', obs'[i].logType)
      /\ ( /\ phase' = "destroyed" /\ written' = { "Error" } /\ nReports' = 0
            /\ disk'[logs_'["Error"].path] = Banner ) =>
           /\ Len(launched') = 1
           /\ launched'[1].path = logs_'["Error"].path
    ]_vars

\* C22 witness: a build with assert() enabled, torn down after its only
\* Write, of the empty message on Error; the viewer was started on Log.err,
\* which holds the banner alone
C22_ViewerOnBannerOnlyFile ==
  /\ phase = "destroyed" /\ ~ndebug /\ nConfigures = 0 /\ nReports = 0
  /\ nWrites = 1 /\ written = { "Error" }
  /\ disk[<< "Log", "err" >>] = Banner
  /\ Len(launched) = 1 /\ launched[1].path = << "Log", "err" >>

\* the top CHAR_BIT - k bits of each of the n bytes of y are zero
HighBitsClear(k, n, y) ==
  \A i \in 0 .. n - 1 : (y \div 2 ^ (CHAR_BIT * i)) % 2 ^ CHAR_BIT < 2 ^ k

\* C23: for 0 < k < 8 and a T of n bytes, PackBits<k>( UnpackBits<k>( x ) ) = x
\* for every x < 2^(k*n); UnpackBits<k>( PackBits<k>( y ) ) = y for every y
\* with the top 8-k bits of each byte zero; and PackBits<k>( y ) = y when one
\* of those bits is set.
C23_PackUnpackInverse ==
  bits.vals # << >> =>
    LET x == bits.vals[1]
    IN  /\ (bits.ops = << "Unpack", "Pack" >> /\ x < 2 ^ (bits.k * bits.n)) =>
             bits.vals[3] = x
        /\ (bits.ops = << "Pack", "Unpack" >> /\ HighBitsClear(bits.k, bits.n, x)) =>
             bits.vals[3] = x
        /\ (bits.ops # << >> /\ bits.ops[1] = "Pack" /\ ~HighBitsClear(bits.k, bits.n, x)) =>
             bits.vals[2] = x

\* C23 witness: UnpackBits<7>( uint16_t( 0x3FFF ) ) = 0x7F7F, packed back to
\* 0x3FFF
C23_SynchSafeRoundTrip ==
  /\ bits.k = 7 /\ bits.n = 2
  /\ bits.ops = << "Unpack", "Pack" >>
  /\ bits.vals = << 16383, 32639, 16383 >>

=============================================================================
